---- MODULE Spec2Model ----
(***************************************************************************)
(* Hanoi-Foodie: the bulk-load scripts (add_record.py,                     *)
(* db_seed_postgres.py) and the read layer of the Streamlit app (app.py)   *)
(* over the three PostgreSQL tables restaurants, dishes and                *)
(* restaurant_dishes.                                                      *)
(*                                                                         *)
(* A table is the sequence of its rows in insertion order.  Only the       *)
(* columns that decide control flow are kept: id and name of a restaurant  *)
(* or dish, and (restaurant_id, dish_id, price) of a link.  A script run   *)
(* is one action: the whole try / except / finally of the script.          *)
(***************************************************************************)
EXTENDS Integers, Sequences, FiniteSets, TLC

VARIABLES
    store,   \* the committed rows of the three tables
    seqs,    \* last value of the SERIAL sequences (not transactional)
    run,     \* the last script run: its inputs and how it ended
    view,    \* what the last load_data() of the app returned
    call     \* the last call of a filtering helper of the app

vars == <<store, seqs, run, view, call>>

----------------------------------------------------------------------------
(* Bounds and input sets *)

MaxLen == 2      \* longest fixture list
MaxId == 2       \* highest value a SERIAL sequence may reach
MaxEntries == 2  \* longest list handed to a filtering helper

\* The names and prices of the fixture records.  The restaurant side carries
\* two names; the dish side, whose code is the same, one name: a dish name is
\* unknown to a run when the run's dish list is empty.
RNames == {"Pho Thin", "Bun Cha Ta"}
DNames == {"Pho Bo"}
Prices == {50000}

\* the names and prices the filtering helpers are called with
HelperDNames == {"Pho Bo", "Bun Cha"}
HelperPrices == {50000, 35000}

SeqsUpTo(S, n) == UNION {[1..k -> S] : k \in 0..n}

Names(rows) == {rows[i].name : i \in DOMAIN rows}

----------------------------------------------------------------------------
(* The fixture documents, as load_data / load_sample_data see them *)

NoFixtures(status) ==
    [status |-> status, restaurants |-> <<>>, dishes |-> <<>>,
     restaurant_dishes |-> <<>>]

Fixtures ==
    [status : {"ok"},
     restaurants : SeqsUpTo([name : RNames], MaxLen),
     dishes : SeqsUpTo([name : DNames], MaxLen),
     restaurant_dishes :
         SeqsUpTo([restaurant : RNames, dish : DNames, price : Prices], MaxLen)]
    \cup {NoFixtures("missing"), NoFixtures("malformed")}

\* open() of a missing file, json.load() of a malformed one
load_data_error(fx) ==
    CASE fx.status = "missing" -> "FileNotFoundError"
      [] fx.status = "malformed" -> "JSONDecodeError"
      [] OTHER -> "none"

----------------------------------------------------------------------------
(* The store: tables, constraints, transactions *)

EmptyTables == [restaurants |-> <<>>, dishes |-> <<>>, restaurant_dishes |-> <<>>]

\* the table without its primary key: no pair is ever refused
PrimaryKeyNotChecked(tables, row) == FALSE

\* PRIMARY KEY (restaurant_id, dish_id)
PrimaryKeyViolation(tables, row) ==
    \E i \in DOMAIN tables.restaurant_dishes :
        /\ tables.restaurant_dishes[i].restaurant_id = row.restaurant_id
        /\ tables.restaurant_dishes[i].dish_id = row.dish_id

\* restaurant_id REFERENCES restaurants(id), dish_id REFERENCES dishes(id)
ForeignKeyViolation(tables, row) ==
    \/ \A i \in DOMAIN tables.restaurants : tables.restaurants[i].id # row.restaurant_id
    \/ \A i \in DOMAIN tables.dishes : tables.dishes[i].id # row.dish_id

\* a seed that forgets the reset
TruncateNothing(tables) == tables

\* a reset of the two entity tables that leaves the links behind
TruncateNoCascade(tables) ==
    [EmptyTables EXCEPT !.restaurant_dishes = tables.restaurant_dishes]

\* TRUNCATE restaurants, dishes, restaurant_dishes CASCADE
Truncate(tables) == EmptyTables

\* dict.setdefault: the first identifier of a name is kept
DictSetDefault(dict, name, id) ==
    [n \in DOMAIN dict \cup {name} |-> IF n \in DOMAIN dict THEN dict[n] ELSE id]

\* restaurants_dict[name] = id
DictSet(dict, name, id) ==
    [n \in DOMAIN dict \cup {name} |-> IF n = name THEN id ELSE dict[n]]

EmptyDict == [n \in {} |-> 0]

\* the name -> id map of the rows a table already holds (last row wins)
RECURSIVE DictOfRows(_, _)
DictOfRows(rows, i) ==
    IF i > Len(rows) THEN EmptyDict
    ELSE [n \in DOMAIN DictOfRows(rows, i + 1) \cup {rows[i].name} |->
            IF n \in DOMAIN DictOfRows(rows, i + 1)
            THEN DictOfRows(rows, i + 1)[n] ELSE rows[i].id]

----------------------------------------------------------------------------
(* One script run.  A context c is the state of the run inside the script:  *)
(*   db      the committed tables, tx the tables as the open transaction    *)
(*           sees them (equal to db when nothing is pending)                *)
(*   seqs    the SERIAL sequences: nextval is never rolled back             *)
(*   conn    the local variable conn: "unbound", "open" or "closed"         *)
(*   raised  the exception in flight, "none" when there is none             *)

\* lookup tables that start from the rows already in the store
ContextFromStore(tables, sq) ==
    [db |-> tables, tx |-> tables, seqs |-> sq, conn |-> "unbound",
     raised |-> "none",
     restaurants_dict |-> DictOfRows(tables.restaurants, 1),
     dishes_dict |-> DictOfRows(tables.dishes, 1),
     close_unbound |-> FALSE, rollback_unbound |-> FALSE]

Context(tables, sq) ==
    [db |-> tables, tx |-> tables, seqs |-> sq, conn |-> "unbound",
     raised |-> "none", restaurants_dict |-> EmptyDict, dishes_dict |-> EmptyDict,
     close_unbound |-> FALSE, rollback_unbound |-> FALSE]

\* psycopg2.connect(**DB_CONFIG)
Connect(c, connect_ok) ==
    IF connect_ok THEN [c EXCEPT !.conn = "open"]
    ELSE [c EXCEPT !.raised = "psycopg2.Error"]

\* INSERT INTO restaurants ... RETURNING id; restaurants_dict[name] = id
InsertRestaurant(c, restaurant) ==
    LET id == c.seqs.restaurants + 1 IN
    [c EXCEPT !.seqs.restaurants = id,
              !.tx.restaurants = Append(@, [id |-> id, name |-> restaurant.name]),
              !.restaurants_dict = DictSet(@, restaurant.name, id)]

\* INSERT INTO dishes ... RETURNING id; dishes_dict[name] = id
InsertDish(c, dish) ==
    LET id == c.seqs.dishes + 1 IN
    [c EXCEPT !.seqs.dishes = id,
              !.tx.dishes = Append(@, [id |-> id, name |-> dish.name]),
              !.dishes_dict = DictSet(@, dish.name, id)]

\* restaurants_dict[rel['restaurant']], dishes_dict[rel['dish']]
Resolvable(c, rel) ==
    /\ rel.restaurant \in DOMAIN c.restaurants_dict
    /\ rel.dish \in DOMAIN c.dishes_dict

\* INSERT INTO restaurant_dishes (restaurant_id, dish_id, price)
InsertLink(c, rel) ==
    IF ~Resolvable(c, rel) THEN [c EXCEPT !.raised = "KeyError"]
    ELSE LET row == [restaurant_id |-> c.restaurants_dict[rel.restaurant],
                     dish_id |-> c.dishes_dict[rel.dish],
                     price |-> rel.price]
         IN IF PrimaryKeyViolation(c.tx, row) \/ ForeignKeyViolation(c.tx, row)
            THEN [c EXCEPT !.raised = "psycopg2.Error"]
            ELSE [c EXCEPT !.tx.restaurant_dishes = Append(@, row)]

\* for restaurant in restaurants: ...
RECURSIVE AddRestaurants(_, _, _)
AddRestaurants(c, restaurants, i) ==
    IF i > Len(restaurants) \/ c.raised # "none" THEN c
    ELSE AddRestaurants(InsertRestaurant(c, restaurants[i]), restaurants, i + 1)

\* for dish in dishes: ...
RECURSIVE AddDishes(_, _, _)
AddDishes(c, dishes, i) ==
    IF i > Len(dishes) \/ c.raised # "none" THEN c
    ELSE AddDishes(InsertDish(c, dishes[i]), dishes, i + 1)

\* for rel in restaurant_dishes: ...   (an exception leaves the loop)
RECURSIVE AddLinks(_, _, _)
AddLinks(c, restaurant_dishes, i) ==
    IF i > Len(restaurant_dishes) \/ c.raised # "none" THEN c
    ELSE AddLinks(InsertLink(c, restaurant_dishes[i]), restaurant_dishes, i + 1)

\* the three loops of a load, in the order of the scripts
AddSampleData(c, fx) ==
    AddLinks(AddDishes(AddRestaurants(c, fx.restaurants, 1), fx.dishes, 1),
             fx.restaurant_dishes, 1)

\* conn.commit()
Commit(c) == IF c.raised # "none" THEN c ELSE [c EXCEPT !.db = c.tx]

\* conn.rollback()
Rollback(c) == [c EXCEPT !.tx = c.db]

\* a connection in autocommit: what was executed stays
CloseCommitting(c) == [c EXCEPT !.db = c.tx, !.conn = "closed"]

\* conn.close(): the server discards a transaction that was not committed
Close(c) == [c EXCEPT !.tx = c.db, !.conn = "closed"]

\* a reset that takes effect at once, outside the transaction of the inserts
ResetDataCommitted(c) == [c EXCEPT !.tx = Truncate(@), !.db = Truncate(c.tx)]

\* create_tables(cursor); TRUNCATE ... CASCADE, inside the transaction
ResetData(c) == [c EXCEPT !.tx = Truncate(@)]

\* the try block of add_records
TryAddRecords(c, fx, connect_ok) ==
    IF load_data_error(fx) # "none" THEN [c EXCEPT !.raised = load_data_error(fx)]
    ELSE LET c1 == Connect(c, connect_ok) IN
         IF c1.raised # "none" THEN c1
         ELSE Commit(AddSampleData(c1, fx))

\* the try block of seed_database
TrySeedDatabase(c, fx, connect_ok, add_sample_data) ==
    IF load_data_error(fx) # "none" THEN [c EXCEPT !.raised = load_data_error(fx)]
    ELSE LET c1 == Connect(c, connect_ok) IN
         IF c1.raised # "none" THEN c1
         ELSE LET c2 == ResetData(c1) IN
              Commit(IF add_sample_data THEN AddSampleData(c2, fx) ELSE c2)

\* except psycopg2.Error as e: conn.rollback(); raise
\* (a name that was never bound raises UnboundLocalError in its place)
ExceptClause(c) ==
    IF c.raised # "psycopg2.Error" THEN c
    ELSE IF c.conn = "unbound"
         THEN [c EXCEPT !.raised = "UnboundLocalError", !.rollback_unbound = TRUE]
         ELSE Rollback(c)

\* finally: conn.close()
\* (an exception raised in finally replaces the one in flight)
FinallyClause(c) ==
    IF c.conn = "unbound"
    THEN [c EXCEPT !.raised = "UnboundLocalError", !.close_unbound = TRUE]
    ELSE Close(c)

add_records(tables, sq, fx, connect_ok) ==
    FinallyClause(ExceptClause(TryAddRecords(Context(tables, sq), fx, connect_ok)))

seed_database(tables, sq, fx, connect_ok, add_sample_data) ==
    FinallyClause(ExceptClause(
        TrySeedDatabase(Context(tables, sq), fx, connect_ok, add_sample_data)))

----------------------------------------------------------------------------
(* The read layer of the app *)

\* one restaurant_dishes row JOINed to restaurants ON id and to dishes ON id
JoinRow(tables, rd) ==
    LET rs == SelectSeq(tables.restaurants, LAMBDA r : r.id = rd.restaurant_id)
        ds == SelectSeq(tables.dishes, LAMBDA d : d.id = rd.dish_id)
    IN [k \in 1..(Len(rs) * Len(ds)) |->
            [restaurant |-> rs[((k - 1) \div Len(ds)) + 1].name,
             dish |-> ds[((k - 1) % Len(ds)) + 1].name,
             price |-> rd.price]]

\* SELECT r.name as restaurant, d.name as dish, rd.price FROM restaurant_dishes rd JOIN ...
RECURSIVE SelectMenuEntries(_, _)
SelectMenuEntries(tables, i) ==
    IF i > Len(tables.restaurant_dishes) THEN <<>>
    ELSE JoinRow(tables, tables.restaurant_dishes[i]) \o SelectMenuEntries(tables, i + 1)

NoView ==
    [loaded |-> FALSE, raised |-> "none", conn |-> "unbound",
     restaurants |-> <<>>, dishes |-> <<>>, restaurant_dishes |-> <<>>]

\* load_data() of app.py.  The rows come in table order (the queries have no
\* ORDER BY; the properties below read counts and membership only).
\* `with connection` ends the transaction and leaves
\* the connection open: it is closed only when the object is collected, which
\* `collected` decides.
load_data(tables, connect_ok, collected) ==
    IF ~connect_ok THEN [NoView EXCEPT !.raised = "psycopg2.Error"]
    ELSE [loaded |-> TRUE, raised |-> "none",
          conn |-> IF collected THEN "closed" ELSE "open",
          restaurants |-> tables.restaurants,
          dishes |-> tables.dishes,
          restaurant_dishes |-> SelectMenuEntries(tables, 1)]

\* one element per matching entry, in the order of the entries
get_dishes_per_entry(restaurant_name, dishes, relations) ==
    LET RECURSIVE per(_)
        per(i) ==
            IF i > Len(relations) THEN <<>>
            ELSE (IF relations[i].restaurant = restaurant_name
                  THEN SelectSeq(dishes, LAMBDA d : d.name = relations[i].dish)
                  ELSE <<>>) \o per(i + 1)
    IN per(1)

\* [r["dish"] for r in relations if r["restaurant"] == restaurant_name]
\* [d for d in dishes if d["name"] in dish_names]
get_dishes_by_restaurant(restaurant_name, dishes, relations) ==
    LET dish_names ==
            SelectSeq(relations, LAMBDA r : r.restaurant = restaurant_name)
    IN SelectSeq(dishes,
                 LAMBDA d : \E i \in DOMAIN dish_names : dish_names[i].dish = d.name)

\* for r in relations: if ... and ...: return r["price"]; return 0
RECURSIVE get_price_from(_, _, _, _)
get_price_from(restaurant_name, dish_name, relations, i) ==
    IF i > Len(relations) THEN 0
    ELSE IF /\ relations[i].restaurant = restaurant_name
            /\ relations[i].dish = dish_name
         THEN relations[i].price
         ELSE get_price_from(restaurant_name, dish_name, relations, i + 1)

\* `or` in place of `and`
get_price_either(restaurant_name, dish_name, relations) ==
    LET hits == {i \in DOMAIN relations :
                    \/ relations[i].restaurant = restaurant_name
                    \/ relations[i].dish = dish_name}
    IN IF hits = {} THEN 0
       ELSE relations[CHOOSE i \in hits : \A j \in hits : i <= j].price

get_price(restaurant_name, dish_name, relations) ==
    get_price_from(restaurant_name, dish_name, relations, 1)

----------------------------------------------------------------------------
(* State machine *)

NoRun ==
    [script |-> "none", add_sample_data |-> FALSE, fx |-> NoFixtures("ok"),
     connect_ok |-> TRUE, raised |-> "none", conn |-> "unbound",
     close_unbound |-> FALSE, rollback_unbound |-> FALSE,
     seqs0 |-> [restaurants |-> 0, dishes |-> 0]]

NoCall == [fn |-> "none"]

\* what is kept of a finished run
RunRecord(script, add_sample_data, fx, connect_ok, c) ==
    [script |-> script, add_sample_data |-> add_sample_data, fx |-> fx,
     connect_ok |-> connect_ok, raised |-> c.raised, conn |-> c.conn,
     close_unbound |-> c.close_unbound, rollback_unbound |-> c.rollback_unbound,
     seqs0 |-> seqs]

\* A run that never reaches the loops over the records (no connection, or
\* add_sample_data = False) is drawn with empty documents: it reads none of them.
ReadsRecords(fx, connect_ok, add_sample_data) ==
    \/ connect_ok /\ add_sample_data
    \/ fx \in {NoFixtures("ok"), NoFixtures("missing"), NoFixtures("malformed")}

\* the sequences stay within MaxId
WithinIds(fx) ==
    /\ seqs.restaurants + Len(fx.restaurants) <= MaxId
    /\ seqs.dishes + Len(fx.dishes) <= MaxId

Init ==
    /\ store = EmptyTables
    /\ seqs = [restaurants |-> 0, dishes |-> 0]
    /\ run = NoRun
    /\ view = NoView
    /\ call = NoCall

\* python add_record.py
AddRecords ==
    /\ run = NoRun
    /\ \E fx \in Fixtures, connect_ok \in BOOLEAN :
        /\ ReadsRecords(fx, connect_ok, TRUE)
        /\ WithinIds(fx)
        /\ LET c == add_records(store, seqs, fx, connect_ok) IN
            /\ store' = c.db
            /\ seqs' = c.seqs
            /\ run' = RunRecord("add_records", TRUE, fx, connect_ok, c)
        /\ view' = NoView
        /\ call' = NoCall

\* seed_database(add_sample_data)
SeedDatabase ==
    /\ run = NoRun
    /\ \E fx \in Fixtures, connect_ok \in BOOLEAN, add_sample_data \in BOOLEAN :
        /\ ReadsRecords(fx, connect_ok, add_sample_data)
        /\ WithinIds(fx)
        /\ LET c == seed_database(store, seqs, fx, connect_ok, add_sample_data) IN
            /\ store' = c.db
            /\ seqs' = c.seqs
            /\ run' = RunRecord("seed_database", add_sample_data, fx, connect_ok, c)
        /\ view' = NoView
        /\ call' = NoCall

\* main() of app.py: restaurants, dishes, restaurant_dishes = load_data()
LoadData ==
    \E connect_ok \in BOOLEAN, collected \in BOOLEAN :
        /\ view' = load_data(store, connect_ok, collected)
        /\ call' = NoCall
        /\ UNCHANGED <<store, seqs, run>>

\* the script process and the render end: only the store and its sequences stay
Exit ==
    /\ run # NoRun \/ view # NoView
    /\ run' = NoRun
    /\ view' = NoView
    /\ call' = NoCall
    /\ UNCHANGED <<store, seqs>>

Next == AddRecords \/ SeedDatabase \/ LoadData \/ Exit

Spec == Init /\ [][Next]_vars

----------------------------------------------------------------------------
(* The filtering helpers on their own: any loaded lists, any arguments *)

HelperViews ==
    [loaded : {TRUE}, raised : {"none"}, conn : {"closed"},
     restaurants : {<<>>},
     dishes : SeqsUpTo([id : 1..2, name : HelperDNames], MaxEntries),
     restaurant_dishes :
         SeqsUpTo([restaurant : RNames, dish : HelperDNames, price : HelperPrices],
                  MaxEntries)]

InitHelpers ==
    /\ store = EmptyTables
    /\ seqs = [restaurants |-> 0, dishes |-> 0]
    /\ run = NoRun
    /\ view \in HelperViews
    /\ call = NoCall

\* get_price(selected_restaurant, dish['name'], restaurant_dishes)
GetPrice ==
    /\ view.loaded
    /\ \E r \in RNames, d \in HelperDNames :
        call' = [fn |-> "get_price", restaurant_name |-> r, dish_name |-> d,
                 result |-> get_price(r, d, view.restaurant_dishes)]
    /\ UNCHANGED <<store, seqs, run, view>>

\* get_dishes_by_restaurant(selected_restaurant, dishes, restaurant_dishes)
GetDishesByRestaurant ==
    /\ view.loaded
    /\ \E r \in RNames :
        call' = [fn |-> "get_dishes_by_restaurant", restaurant_name |-> r,
                 result |-> get_dishes_by_restaurant(r, view.dishes,
                                                     view.restaurant_dishes)]
    /\ UNCHANGED <<store, seqs, run, view>>

NextHelpers == GetPrice \/ GetDishesByRestaurant

SpecHelpers == InitHelpers /\ [][NextHelpers]_vars

----------------------------------------------------------------------------
(* Properties of the bulk loads.  In a state where run.script # "none" the   *)
(* store is the store as that run left it, and run.seqs0 holds the sequences *)
(* as the run found them: the rows the run inserted are the rows whose       *)
(* identifier is above run.seqs0.                                            *)

RunEnded == run.script # "none"

\* the run reached the loops over the records
Loaded == RunEnded /\ run.add_sample_data /\ run.fx.status = "ok" /\ run.connect_ok

InsertedRestaurants ==
    {i \in DOMAIN store.restaurants : store.restaurants[i].id > run.seqs0.restaurants}

InsertedDishes ==
    {i \in DOMAIN store.dishes : store.dishes[i].id > run.seqs0.dishes}

InsertedLinks ==
    {i \in DOMAIN store.restaurant_dishes :
        \/ store.restaurant_dishes[i].restaurant_id > run.seqs0.restaurants
        \/ store.restaurant_dishes[i].dish_id > run.seqs0.dishes}

\* the link record names a restaurant or a dish absent from the run's fixture lists
Unknown(fx, k) ==
    \/ \A i \in DOMAIN fx.restaurants :
            fx.restaurants[i].name # fx.restaurant_dishes[k].restaurant
    \/ \A i \in DOMAIN fx.dishes :
            fx.dishes[i].name # fx.restaurant_dishes[k].dish

\* two link records of the fixture with the same restaurant and dish names
SamePair(fx, j, k) ==
    /\ fx.restaurant_dishes[j].restaurant = fx.restaurant_dishes[k].restaurant
    /\ fx.restaurant_dishes[j].dish = fx.restaurant_dishes[k].dish

\* the loop over the links gets as far as record k: no record before it is
\* unknown, and no two records before it repeat a pair
Reaches(fx, k) ==
    /\ \A j \in 1..(k - 1) : ~Unknown(fx, j)
    /\ \A i, j \in 1..(k - 1) : i < j => ~SamePair(fx, i, j)

\* C1: a run of add_records or seed_database(add_sample_data=True) in which the
\* insertion of a link record fails (unknown name, repeated pair) leaves no
\* restaurant row, dish row or link row of that run in the store.
C1_FailedLoadLeavesNoRow ==
    (Loaded /\ run.raised # "none") =>
        /\ InsertedRestaurants = {}
        /\ InsertedDishes = {}
        /\ InsertedLinks = {}

\* a load that inserted a restaurant and a dish and then failed on a link
C1_Witness ==
    /\ Loaded
    /\ run.raised \in {"KeyError", "psycopg2.Error"}
    /\ run.fx.restaurants # <<>>
    /\ run.fx.dishes # <<>>
    /\ seqs.restaurants > run.seqs0.restaurants

\* C2: a link record that names a restaurant or a dish absent from the run's own
\* fixture lists ends the load with a KeyError (a LookupError) as soon as the
\* loop reaches it, whatever the store holds: the run leaves no link row and no
\* restaurant or dish row behind.
C2_UnknownNameIsLookupError ==
    Loaded =>
        \A k \in DOMAIN run.fx.restaurant_dishes :
            (Unknown(run.fx, k) /\ Reaches(run.fx, k)) =>
                /\ run.raised = "KeyError"
                /\ InsertedLinks = {}
                /\ InsertedRestaurants = {}
                /\ InsertedDishes = {}

\* the unknown restaurant name is the name of a row an earlier run committed
C2_Witness ==
    /\ Loaded
    /\ run.raised = "KeyError"
    /\ \E k \in DOMAIN run.fx.restaurant_dishes :
        /\ Reaches(run.fx, k)
        /\ \A i \in DOMAIN run.fx.restaurants :
                run.fx.restaurants[i].name # run.fx.restaurant_dishes[k].restaurant
        /\ run.fx.restaurant_dishes[k].restaurant \in Names(store.restaurants)
        /\ run.fx.restaurant_dishes[k].dish \in Names(store.dishes)

\* no name occurs twice in the restaurant list or in the dish list
NoNameCollisions(fx) ==
    /\ \A i, j \in DOMAIN fx.restaurants :
            fx.restaurants[i].name = fx.restaurants[j].name => i = j
    /\ \A i, j \in DOMAIN fx.dishes :
            fx.dishes[i].name = fx.dishes[j].name => i = j

SeedCommitted ==
    /\ Loaded
    /\ run.script = "seed_database"
    /\ run.raised = "none"

\* C3: after a seed_database(add_sample_data=True) run that commits, on fixtures
\* without name collisions, load_data returns as many restaurants, dishes and
\* menu entries as the three documents contain.
C3_RoundTripCounts ==
    (SeedCommitted /\ NoNameCollisions(run.fx) /\ view.loaded) =>
        /\ Len(view.restaurants) = Len(run.fx.restaurants)
        /\ Len(view.dishes) = Len(run.fx.dishes)
        /\ Len(view.restaurant_dishes) = Len(run.fx.restaurant_dishes)

\* the seed ran on a store whose sequences had been used, and loaded links
C3_Witness ==
    /\ SeedCommitted /\ NoNameCollisions(run.fx) /\ view.loaded
    /\ run.seqs0.restaurants > 0
    /\ run.seqs0.dishes > 0
    /\ run.fx.restaurant_dishes # <<>>

\* C4: every restaurant_dishes row references an existing restaurants row and an
\* existing dishes row, and every menu entry load_data returns names a
\* restaurant and a dish of the lists the same call returns.
C4_ReferentialIntegrity ==
    /\ \A i \in DOMAIN store.restaurant_dishes :
        /\ \E r \in DOMAIN store.restaurants :
                store.restaurants[r].id = store.restaurant_dishes[i].restaurant_id
        /\ \E d \in DOMAIN store.dishes :
                store.dishes[d].id = store.restaurant_dishes[i].dish_id
    /\ view.loaded =>
        \A i \in DOMAIN view.restaurant_dishes :
            /\ view.restaurant_dishes[i].restaurant \in Names(view.restaurants)
            /\ view.restaurant_dishes[i].dish \in Names(view.dishes)

\* menu entries read back after a seed that replaced rows an earlier run left
C4_Witness ==
    /\ SeedCommitted
    /\ run.seqs0.restaurants > 0
    /\ view.loaded
    /\ view.restaurant_dishes # <<>>
    /\ Len(view.restaurant_dishes) = Len(store.restaurant_dishes)

\* C5 as stated: a (restaurant, dish) pair appears at most once among the menu
\* entries load_data returns.
C5_NamePairOnce ==
    view.loaded =>
        \A i, j \in DOMAIN view.restaurant_dishes :
            (/\ view.restaurant_dishes[i].restaurant = view.restaurant_dishes[j].restaurant
             /\ view.restaurant_dishes[i].dish = view.restaurant_dishes[j].dish)
                => i = j

\* C5 amended: a (restaurant identifier, dish identifier) pair appears at most
\* once among the restaurant_dishes rows.
C5_IdPairOnce ==
    \A i, j \in DOMAIN store.restaurant_dishes :
        (/\ store.restaurant_dishes[i].restaurant_id = store.restaurant_dishes[j].restaurant_id
         /\ store.restaurant_dishes[i].dish_id = store.restaurant_dishes[j].dish_id)
            => i = j

\* two rows with different identifiers give the same pair of names
C5_Witness ==
    /\ view.loaded
    /\ \E i, j \in DOMAIN view.restaurant_dishes :
        /\ i # j
        /\ view.restaurant_dishes[i].restaurant = view.restaurant_dishes[j].restaurant
        /\ view.restaurant_dishes[i].dish = view.restaurant_dishes[j].dish

----------------------------------------------------------------------------
(* Properties of the filtering helpers, in a state where `call` holds the   *)
(* last call and `view` the lists it was given                              *)

\* the entries that match both names
Matches(restaurant_name, dish_name) ==
    {i \in DOMAIN view.restaurant_dishes :
        /\ view.restaurant_dishes[i].restaurant = restaurant_name
        /\ view.restaurant_dishes[i].dish = dish_name}

\* C6: get_price returns the price of the first entry, in list order, whose
\* restaurant and dish both match, and 0 when no entry matches both.
C6_FirstMatchingPrice ==
    call.fn = "get_price" =>
        LET hits == Matches(call.restaurant_name, call.dish_name) IN
        IF hits = {} THEN call.result = 0
        ELSE \E i \in hits :
                /\ \A j \in hits : i <= j
                /\ call.result = view.restaurant_dishes[i].price

\* the first entry matches the restaurant alone, the second matches both and
\* carries another price
C6_Witness ==
    /\ call.fn = "get_price"
    /\ Len(view.restaurant_dishes) = 2
    /\ view.restaurant_dishes[1].restaurant = call.restaurant_name
    /\ view.restaurant_dishes[1].dish # call.dish_name
    /\ Matches(call.restaurant_name, call.dish_name) = {2}
    /\ view.restaurant_dishes[1].price # view.restaurant_dishes[2].price
    /\ call.result = view.restaurant_dishes[2].price

\* the positions of `dishes` whose name is the dish of an entry of the restaurant
Served(restaurant_name) ==
    {i \in DOMAIN view.dishes :
        \E j \in DOMAIN view.restaurant_dishes :
            /\ view.restaurant_dishes[j].restaurant = restaurant_name
            /\ view.restaurant_dishes[j].dish = view.dishes[i].name}

\* C7: get_dishes_by_restaurant returns the elements of `dishes` whose name is
\* the dish of at least one entry of the restaurant, in the order of `dishes`,
\* each position once.
C7_DishesOfRestaurant ==
    call.fn = "get_dishes_by_restaurant" =>
        LET keep == Served(call.restaurant_name) IN
        /\ Len(call.result) = Cardinality(keep)
        /\ \A k \in DOMAIN call.result :
            \E i \in keep :
                /\ Cardinality({j \in keep : j < i}) = k - 1
                /\ call.result[k] = view.dishes[i]

\* two entries of the restaurant name the same dish, which is returned once,
\* and another dish of the list is left out
C7_Witness ==
    /\ call.fn = "get_dishes_by_restaurant"
    /\ Len(view.restaurant_dishes) = 2
    /\ view.restaurant_dishes[1].restaurant = call.restaurant_name
    /\ view.restaurant_dishes[2].restaurant = call.restaurant_name
    /\ view.restaurant_dishes[1].dish = view.restaurant_dishes[2].dish
    /\ Len(view.dishes) = 2
    /\ view.dishes[1].name # view.dishes[2].name
    /\ Len(call.result) = 1

----------------------------------------------------------------------------
(* Properties of the error paths and of the connection *)

\* C8: a run whose fixture document is missing or malformed ends with the
\* error of the fixture loader and opens no connection.
C8_ParseErrorPropagates ==
    (RunEnded /\ run.fx.status # "ok") =>
        /\ run.raised = load_data_error(run.fx)
        /\ run.conn = "unbound"
        /\ seqs = run.seqs0

\* C9: after a script run and after a load_data call no connection it opened
\* is still open, and no rollback or close was attempted on a connection that
\* was never acquired.
C9_ConnectionsReleased ==
    /\ RunEnded =>
        /\ run.conn # "open"
        /\ ~run.close_unbound
        /\ ~run.rollback_unbound
    /\ view.conn # "open"

\* the position of the last record of the list with that name
LastNamed(records, name) ==
    CHOOSE i \in DOMAIN records :
        /\ records[i].name = name
        /\ \A j \in DOMAIN records : records[j].name = name => j <= i

\* the rows a committed load appended to a table, in table order
LastRows(rows, n) == SubSeq(rows, Len(rows) - n + 1, Len(rows))

\* C10: a committed load inserts one row per restaurant (dish) record, in input
\* order, and attaches every link to the identifier of the last-inserted row
\* with the restaurant (dish) name it gives.
C10_LastWriteWins ==
    (Loaded /\ run.raised = "none") =>
        LET fx == run.fx
            rs == LastRows(store.restaurants, Len(fx.restaurants))
            ds == LastRows(store.dishes, Len(fx.dishes))
            ls == LastRows(store.restaurant_dishes, Len(fx.restaurant_dishes))
        IN /\ Len(store.restaurants) >= Len(fx.restaurants)
           /\ Len(store.dishes) >= Len(fx.dishes)
           /\ Len(store.restaurant_dishes) >= Len(fx.restaurant_dishes)
           /\ \A i \in DOMAIN fx.restaurants :
                rs[i] = [id |-> run.seqs0.restaurants + i, name |-> fx.restaurants[i].name]
           /\ \A i \in DOMAIN fx.dishes :
                ds[i] = [id |-> run.seqs0.dishes + i, name |-> fx.dishes[i].name]
           /\ \A k \in DOMAIN fx.restaurant_dishes :
                /\ ls[k].restaurant_id =
                      rs[LastNamed(fx.restaurants, fx.restaurant_dishes[k].restaurant)].id
                /\ ls[k].dish_id =
                      ds[LastNamed(fx.dishes, fx.restaurant_dishes[k].dish)].id
                /\ ls[k].price = fx.restaurant_dishes[k].price

\* a committed load whose restaurant list and dish list both repeat a name
\* that a link gives
C10_Witness ==
    /\ Loaded /\ run.raised = "none"
    /\ \E k \in DOMAIN run.fx.restaurant_dishes :
        /\ \E i, j \in DOMAIN run.fx.restaurants :
            /\ i < j
            /\ run.fx.restaurants[i].name = run.fx.restaurant_dishes[k].restaurant
            /\ run.fx.restaurants[j].name = run.fx.restaurant_dishes[k].restaurant
        /\ \E i, j \in DOMAIN run.fx.dishes :
            /\ i < j
            /\ run.fx.dishes[i].name = run.fx.restaurant_dishes[k].dish
            /\ run.fx.dishes[j].name = run.fx.restaurant_dishes[k].dish

----------------------------------------------------------------------------
(* The reset of seed_database *)

\* C11: a seed_database run that fails (a database error, a link naming an
\* unknown restaurant or dish, or any error before) leaves the rows of the
\* three tables exactly as they were before the run: the reset is undone with
\* the inserts, and only a run that commits removes the rows that were there.
C11_FailedSeedKeepsRows ==
    [][(run'.script = "seed_database" /\ run'.raised # "none") => store' = store]_vars

\* a seed that went past its TRUNCATE, inserted rows and failed on a link,
\* with the links of an earlier run still in the store
C11_Witness ==
    /\ Loaded
    /\ run.script = "seed_database"
    /\ run.raised \in {"KeyError", "psycopg2.Error"}
    /\ seqs.restaurants > run.seqs0.restaurants
    /\ store.restaurant_dishes # <<>>

====
